---- MODULE Spec2Model ----
(***************************************************************************)
(* A model of xNVMe's asynchronous zoned I/O example                       *)
(* (examples/zoned_io_async.c: the read, write and append drive loops)     *)
(* and of its fio I/O engine (tools/fio-engine/xnvme_fioe.c: queue,        *)
(* getevents, event over several devices; init, cleanup and the zone       *)
(* management calls, each under a specification of its own).               *)
(*                                                                         *)
(* One behaviour is one run of one program: prog says which.  The xNVMe    *)
(* library itself (xnvme_async_*, xnvme_cmd_*, znd_cmd_append, the device) *)
(* is not part of the two files; it is modelled from its documented        *)
(* contract: a context of `depth` outstanding commands, a submission that  *)
(* answers 0, -EBUSY/-EAGAIN or a hard error, a device that completes      *)
(* commands in any order, and poke/wait that reap completions and run the  *)
(* completion callback synchronously.                                      *)
(***************************************************************************)
EXTENDS Integers, Sequences, FiniteSets, TLC

(* ------------------------------ bounds -------------------------------- *)

\* Largest queue depth (qd / td->o.iodepth) a run is started with.
MaxDepth == 2

\* Zone capacity in sectors (zone.zcap) of the zone the examples drive.
ZCap == 3

\* Index of the zone the examples drive; its start LBA is ZoneIdx * ZCap.
ZoneIdx == 1

\* Largest number of files (devices) the engine is initialised with.
MaxFiles == 3

\* Largest nr_files * iodepth the engine is initialised with.
MaxLoad == 4

\* Number of failures the backend and the device may inject in one run.
MaxFaults == 1

(* ------------------------- program constants ------------------------- *)

EIO == 5

EAGAIN == 11

EBUSY == 16

EINVAL == 22

\* The handle value of an empty list's head, and of "no request".
NULL == 0

\* Geometry of the zoned device the zone management calls address: the
\* sector shift (bytes to sectors), the sectors of a zone and the zones.
Ssw == 1

NSect == 2

NZones == 3

\* Most zones fio asks about in one report.
MaxNrZones == 2

\* Threads that run engine functions at the same time.
NThreads == 2

\* Calls of get_zoned_model in one run.
MaxModelCalls == 2

(* ------------------------------- state -------------------------------- *)

VARIABLES
    prog,       \* which program runs: an example, or a part of the engine
    ndebug,     \* TRUE when the build compiles assert() out
    depth,      \* qd of the example, td->o.iodepth of the engine
    nfiles,     \* number of devices: 1 for an example, td->o.nr_files
    pool,       \* pool[d]: the free list reqs->head of device d, head first
    outq,       \* outq[d]: commands submitted on d's context, not completed
    cq,         \* cq[d]: commands the device completed, not yet reaped
    wp,         \* write pointer of the zone the examples drive
    faults,     \* failures injected so far
    pc,         \* control location of the running program
    sect,       \* loop index of a drive loop
    payload,    \* payload - buf, in units of geo->lba_nbytes
    req,        \* the handle a drive loop holds, NULL when none
    err,        \* the local err of the running function
    cb_args,    \* struct cb_args of the examples
    ret,        \* return value of a finished example, or of getevents
    q_status,   \* enum fio_q_status the last xnvme_fioe_queue returned
    xd,         \* struct xnvme_fioe_data: completed, ecount, prev, cur
    iocq,       \* xd->iocq, the array of td->o.iodepth completed units
    io_u,       \* io_u[u]: where unit u is, and its error field
    ge,         \* locals of a running getevents: min, max, t, fwrap
    lastTry,    \* history: the last submission attempt of a drive loop
    poked,      \* history: a poke ran since lastTry
    hist,       \* history: the polls of getevents (see Polled)
    offsets,    \* history: the LBAs the device assigned to appends, in order
    failedAt,   \* history: the steps of an example that answered a failure
    zbd,        \* a call of xnvme_fioe_reset_wp or xnvme_fioe_report_zones
    thr,        \* threads in the engine's functions, and g_serialize
    fw          \* xd->files and xd->nallocated, and the device handles open

\* The configuration of the run, the locals of an example, and the
\* engine's own state.
cfgVars == << prog, ndebug, depth, nfiles >>

exVars == << wp, sect, payload, req, cb_args, lastTry, poked, offsets,
            failedAt >>

fioeVars == << q_status, xd, iocq, io_u, ge, hist >>

\* The state of the engine's zone management calls and of the threads that
\* share g_serialize; the drive loops and the I/O path leave it alone.
mgmtVars == << zbd, thr, fw >>

vars == << cfgVars, exVars, fioeVars, mgmtVars, pool, outq, cq, faults, pc,
           err, ret >>

Examples == {"read", "write", "append"}

Progs == Examples \cup {"fioe"}

Devs == 0 .. (nfiles - 1)

Min(a, b) == IF a < b THEN a ELSE b

Abs(x) == IF x < 0 THEN -x ELSE x

Range(s) == {s[i] : i \in 1 .. Len(s)}

(* ------------------- sys/queue.h singly-linked list -------------------- *)

SLIST_FIRST(head) == IF head = <<>> THEN NULL ELSE Head(head)

SLIST_REMOVE_HEAD(head) == Tail(head)

SLIST_INSERT_HEAD(head, elm) == <<elm>> \o head

(* --------------- the xNVMe library and the device (contract) ------------ *)

\* The zone the examples drive: znd_descr zone, selected before the loop.
zone == [zslba |-> ZoneIdx * ZCap, zcap |-> ZCap]

\* Commands a context counts against its depth: submitted and not reaped.
Outstanding(d) == Cardinality(outq[d]) + Len(cq[d])

BusyErrs == {-EBUSY, -EAGAIN}

HardErrs == {-EIO, -EINVAL}

\* What xnvme_cmd_read/_write and znd_cmd_append may answer in async mode:
\* busy when the context is saturated; else accepted, a hard error, or busy
\* because the queue underneath is momentarily full.
SubmitResults(d) ==
    IF Outstanding(d) >= depth
    THEN BusyErrs
    ELSE {0} \cup (IF faults < MaxFaults THEN HardErrs \cup BusyErrs ELSE {})

\* Whether answer e of a submission on device d is one of the faults the
\* runs ration: any failure of a context that is not saturated.
Rationed(d, e) == e \in HardErrs \cup BusyErrs /\ Outstanding(d) < depth

Cmd(op, lba, pay, r, arg) ==
    [op |-> op, lba |-> lba, pay |-> pay, req |-> r, arg |-> arg]

\* Whether the device accepts command c: a read succeeds, a write succeeds
\* only at the write pointer of a zone that is not full, an append succeeds
\* while the zone is not full.  The engine's reads and writes ("io") succeed
\* alike: the device treats them the same unless it faults.
Accepts(c) ==
    CASE c.op \in {"read", "io"} -> TRUE
      [] c.op = "write" -> c.lba = wp /\ wp < zone.zslba + zone.zcap
      [] c.op = "append" -> wp < zone.zslba + zone.zcap

Cqe(c, sc) ==
    [req |-> c.req, arg |-> c.arg, status |-> sc,
     lba |-> IF c.op = "append" /\ sc = 0 THEN wp ELSE c.lba]

\* The device finishes one outstanding command of device d, in any order;
\* it may report a fault for a command it would have accepted.  The host
\* sees a completion only through xnvme_async_poke and xnvme_async_wait, and
\* no other step reads more of the context than the count of its
\* outstanding commands: a completion is taken at the poll that can see it.
DeviceComplete ==
    /\ pc \in {"poke", "wait", "wait_next"}
    /\ \E d \in Devs : \E c \in outq[d] : \E fault \in BOOLEAN :
        /\ fault => faults < MaxFaults
        /\ LET ok == Accepts(c) /\ ~fault
           IN  /\ cq' = [cq EXCEPT ![d] = Append(@, Cqe(c, IF ok THEN 0 ELSE 1))]
               /\ wp' = IF ok /\ c.op \in {"write", "append"}
                        THEN wp + 1 ELSE wp
               /\ offsets' = IF ok /\ c.op = "append"
                             THEN Append(offsets, wp) ELSE offsets
        /\ outq' = [outq EXCEPT ![d] = @ \ {c}]
        /\ faults' = IF fault THEN faults + 1 ELSE faults
    /\ UNCHANGED << cfgVars, mgmtVars,
                    fioeVars, pool, pc, sect, payload, req, err,
                    cb_args, ret, lastTry, poked, failedAt >>

\* xnvme_async_poke(dev, ctx, max) reaps the first entries of the completion
\* queue: all of them when max is 0, at most max otherwise.
PokeCount(d, max) == IF max = 0 THEN Len(cq[d]) ELSE Min(max, Len(cq[d]))

(* ----------------------- examples/zoned_io_async.c --------------------- *)

\* A faulty cb_pool that does not put the handle back.
cb_pool_leak(st, e) ==
    [cb_args |->
        [st.cb_args EXCEPT !.completed = @ + 1,
                           !.ecount = IF e.status # 0 THEN @ + 1 ELSE @],
     head |-> st.head]

\* A faulty cb_pool that inserts the handle twice.
cb_pool_twice(st, e) ==
    [cb_args |->
        [st.cb_args EXCEPT !.completed = @ + 1,
                           !.ecount = IF e.status # 0 THEN @ + 1 ELSE @],
     head |-> SLIST_INSERT_HEAD(SLIST_INSERT_HEAD(st.head, e.req), e.req)]

\* cb_pool of the example, on st = [cb_args, head] for completion entry e.
cb_pool(st, e) ==
    [cb_args |->
        [st.cb_args EXCEPT !.completed = @ + 1,
                           !.ecount = IF e.status # 0 THEN @ + 1 ELSE @],
     head |-> SLIST_INSERT_HEAD(st.head, e.req)]

\* The callbacks of the entries a poke or wait reaps, run in order.
RECURSIVE ReapExample(_, _)
ReapExample(st, entries) ==
    IF entries = <<>> THEN st
    ELSE ReapExample(cb_pool(st, Head(entries)), Tail(entries))

\* A faulty LBA that names a sector of its own in an append as well.
CmdLba_sect == zone.zslba + sect

\* The LBA a drive loop names in its command: zone.zslba + sect for read and
\* write, the zone start alone for append.
CmdLba == IF prog = "append" THEN zone.zslba ELSE zone.zslba + sect

\* The steps ahead of the drive loop, in their order: the selection of the
\* zone (znd_descr_from_dev or znd_descr_from_dev_in_state), the buffer, the
\* context and the pool of qd + 1 requests.
SetupSteps ==
    << "znd_descr_from_dev", "xnvme_buf_alloc", "xnvmec_buf_fill",
       "xnvme_async_init", "xnvme_req_pool_alloc", "xnvme_req_pool_init" >>

\* The function up to the drive loop: each step that fails stores its
\* error in err (-errno for the buffer) and leaves by goto exit; when all
\* succeed the pool's free list holds its qd + 1 handles and the loop starts.
Prepare ==
    /\ prog \in Examples
    /\ pc = "start"
    /\ \/ /\ pool' = [pool EXCEPT ![0] = [i \in 1 .. (depth + 1) |-> i]]
          /\ err' = 0
          /\ pc' = "loop"
          /\ UNCHANGED failedAt
       \/ \E i \in DOMAIN SetupSteps : \E e \in HardErrs :
            /\ err' = e
            /\ pc' = "exit"
            /\ failedAt' = {SetupSteps[i]}
            /\ UNCHANGED pool
    /\ UNCHANGED << cfgVars, mgmtVars, fioeVars, outq, cq, faults, ret, wp,
                    sect, payload, req, cb_args, lastTry, poked, offsets >>

\* for (sect = 0; sect < zone.zcap && !cb_args.ecount;): take the head of
\* the free list, or leave the loop for the final wait.
ForLoop ==
    /\ prog \in Examples
    /\ pc = "loop"
    /\ IF sect < zone.zcap /\ cb_args.ecount = 0
       THEN IF pool[0] = <<>>
            THEN /\ pc' = "ub"
                 /\ UNCHANGED << req, pool >>
            ELSE /\ req' = SLIST_FIRST(pool[0])
                 /\ pool' = [pool EXCEPT ![0] = SLIST_REMOVE_HEAD(@)]
                 /\ pc' = "submit"
       ELSE /\ pc' = "wait"
            /\ UNCHANGED << req, pool >>
    /\ UNCHANGED << cfgVars, mgmtVars,
                    fioeVars, outq, cq, wp, faults, sect, payload,
                    err, cb_args, ret, lastTry, poked,
                    offsets, failedAt >>

\* A faulty switch that lets the write loop go on without the wait.
AfterSubmit_nowait(e) ==
    CASE e = 0 -> "loop"
      [] e \in BusyErrs -> "poke"
      [] OTHER -> "exit"

\* A faulty switch that has every loop wait after an accepted submission.
AfterSubmit_allwait(e) ==
    CASE e = 0 -> "wait_next"
      [] e \in BusyErrs -> "poke"
      [] OTHER -> "exit"

\* A faulty switch that retries a busy submission without the poke.
AfterSubmit_nopoke(e) ==
    CASE e = 0 -> IF prog = "write" THEN "wait_next" ELSE "loop"
      [] e \in BusyErrs -> "submit"
      [] OTHER -> "exit"

\* Where a drive loop goes after the switch on the submission result.
AfterSubmit(e) ==
    CASE e = 0 -> IF prog = "write" THEN "wait_next" ELSE "loop"
      [] e \in BusyErrs -> "poke"
      [] OTHER -> "exit"

\* submit: err = xnvme_cmd_read / xnvme_cmd_write / znd_cmd_append(...), and
\* the switch on err; for read and append "next:" advances sect and payload.
Submit ==
    /\ prog \in Examples
    /\ pc = "submit"
    /\ \E e \in SubmitResults(0) :
        /\ err' = e
        /\ pc' = AfterSubmit(e)
        /\ lastTry' = [req |-> req, lba |-> CmdLba, pay |-> payload, err |-> e]
        /\ IF e = 0
           THEN /\ outq' = [outq EXCEPT ![0] =
                                @ \cup {Cmd(prog, CmdLba, payload, req, 0)}]
                /\ cb_args' = [cb_args EXCEPT !.submitted = @ + 1]
                /\ req' = NULL
           ELSE UNCHANGED << outq, cb_args, req >>
        /\ IF AfterSubmit(e) = "loop"
           THEN /\ sect' = sect + 1
                /\ payload' = payload + 1
           ELSE UNCHANGED << sect, payload >>
        /\ faults' = IF Rationed(0, e) THEN faults + 1 ELSE faults
        /\ failedAt' = IF e \notin {0} \cup BusyErrs
                       THEN failedAt \cup {"submit"} ELSE failedAt
    /\ poked' = FALSE
    /\ UNCHANGED << cfgVars, mgmtVars, fioeVars, pool, cq, wp, ret,
                    offsets >>

\* case -EBUSY / -EAGAIN: xnvme_async_poke(dev, ctx, 0); goto submit.  The
\* result of the poke is not looked at; a failing poke reaps nothing.
Poke ==
    /\ prog \in Examples
    /\ pc = "poke"
    /\ \E fails \in BOOLEAN :
        /\ fails => faults < MaxFaults
        /\ LET n == IF fails THEN 0 ELSE PokeCount(0, 0)
               st == ReapExample([cb_args |-> cb_args, head |-> pool[0]],
                                 SubSeq(cq[0], 1, n))
           IN  /\ cb_args' = st.cb_args
               /\ pool' = [pool EXCEPT ![0] = st.head]
               /\ cq' = [cq EXCEPT ![0] = SubSeq(@, n + 1, Len(@))]
        /\ faults' = IF fails THEN faults + 1 ELSE faults
    /\ pc' = "submit"
    /\ poked' = TRUE
    /\ UNCHANGED << cfgVars, mgmtVars,
                    fioeVars, outq, wp, sect, payload, req, err,
                    ret, lastTry,
                    offsets, failedAt >>

\* xnvme_async_wait(dev, ctx), while it blocks: it reaps what has completed.
WaitReap ==
    /\ prog \in Examples
    /\ pc \in {"wait_next", "wait"}
    /\ cq[0] # <<>>
    /\ LET st == ReapExample([cb_args |-> cb_args, head |-> pool[0]], cq[0])
       IN  /\ cb_args' = st.cb_args
           /\ pool' = [pool EXCEPT ![0] = st.head]
    /\ cq' = [cq EXCEPT ![0] = <<>>]
    /\ UNCHANGED << cfgVars, mgmtVars,
                    fioeVars, outq, wp, faults, pc, sect, payload,
                    req, err, ret, lastTry, poked,
                    offsets, failedAt >>

\* A faulty end of the run that does not look at the error count.
CompletionErr_unchecked(e, ecount) == e

\* if (cb_args.ecount) { err = -EIO; ... goto exit; }: err after the final
\* wait answered e.
CompletionErr(e, ecount) == IF ecount # 0 THEN -EIO ELSE e

\* xnvme_async_wait returns: 0 once nothing is outstanding, or a failure.
\* After the wait inside the write loop sect and payload advance; after the
\* final wait the run fails with -EIO when cb_args.ecount is set.
WaitReturn ==
    /\ prog \in Examples
    /\ pc \in {"wait_next", "wait"}
    /\ \E e \in (IF Outstanding(0) = 0 THEN {0} ELSE {})
               \cup (IF faults < MaxFaults THEN {-EIO} ELSE {}) :
        /\ faults' = IF e < 0 THEN faults + 1 ELSE faults
        /\ failedAt' = IF e < 0
                       THEN failedAt \cup {"xnvme_async_wait"} ELSE failedAt
        /\ CASE e < 0 ->
                  /\ err' = e
                  /\ pc' = "exit"
                  /\ UNCHANGED << sect, payload >>
             [] e >= 0 /\ pc = "wait_next" ->
                  /\ err' = e
                  /\ pc' = "loop"
                  /\ sect' = sect + 1
                  /\ payload' = payload + 1
             [] e >= 0 /\ pc = "wait" ->
                  /\ err' = CompletionErr(e, cb_args.ecount)
                  /\ pc' = "exit"
                  /\ UNCHANGED << sect, payload >>
    /\ UNCHANGED << cfgVars, mgmtVars,
                    fioeVars, pool, outq, cq, wp, req, cb_args, ret,
                    lastTry, poked,
                    offsets >>

\* exit: xnvme_async_term, xnvme_req_pool_free, xnvme_buf_free and
\* return err < 0 ? err : 0.
Exit ==
    /\ prog \in Examples
    /\ pc = "exit"
    /\ ret' = IF err < 0 THEN err ELSE 0
    /\ pc' = "done"
    /\ UNCHANGED << cfgVars, mgmtVars,
                    exVars, fioeVars, pool, outq, cq, faults, err >>

(* -------------------- tools/fio-engine/xnvme_fioe.c -------------------- *)

\* The units (struct io_u) fio hands to the engine: td->o.iodepth of them.
Units == 1 .. depth

Ddirs == {"DDIR_READ", "DDIR_WRITE", "DDIR_TRIM"}

\* cb_pool of the engine, on st = [xd, iocq, io_u, head, ub] for completion
\* entry e; e.arg is the unit (req->async.cb_arg), head the free list of
\* req->pool.  A store past the end of iocq is undefined behaviour.
fioe_cb_pool(st, e) ==
    [xd |-> [st.xd EXCEPT !.ecount = IF e.status # 0 THEN @ + 1 ELSE @,
                          !.completed = @ + 1],
     io_u |-> [st.io_u EXCEPT ![e.arg] =
                  [st |-> "done",
                   error |-> IF e.status # 0 THEN EIO ELSE @.error]],
     iocq |-> IF st.xd.completed \in DOMAIN st.iocq
              THEN [st.iocq EXCEPT ![st.xd.completed] = e.arg]
              ELSE st.iocq,
     head |-> SLIST_INSERT_HEAD(st.head, e.req),
     ub |-> st.ub \/ st.xd.completed \notin DOMAIN st.iocq]

RECURSIVE ReapFioe(_, _)
ReapFioe(st, entries) ==
    IF entries = <<>> THEN st
    ELSE ReapFioe(fioe_cb_pool(st, Head(entries)), Tail(entries))

\* Faulty switches at the end of xnvme_fioe_queue: one that keeps the handle
\* on -EBUSY/-EAGAIN, one that keeps it on a hard error, and one that does
\* not store the error in the unit.
QueueSwitch_busykeeps(e, head, r, error) ==
    CASE e = 0 ->
            [status |-> "FIO_Q_QUEUED", head |-> head, error |-> error,
             assert |-> FALSE]
      [] e \in BusyErrs ->
            [status |-> "FIO_Q_BUSY", head |-> head,
             error |-> error, assert |-> FALSE]
      [] OTHER ->
            [status |-> "FIO_Q_COMPLETED", head |-> SLIST_INSERT_HEAD(head, r),
             error |-> Abs(e), assert |-> TRUE]

QueueSwitch_hardkeeps(e, head, r, error) ==
    CASE e = 0 ->
            [status |-> "FIO_Q_QUEUED", head |-> head, error |-> error,
             assert |-> FALSE]
      [] e \in BusyErrs ->
            [status |-> "FIO_Q_BUSY", head |-> SLIST_INSERT_HEAD(head, r),
             error |-> error, assert |-> FALSE]
      [] OTHER ->
            [status |-> "FIO_Q_COMPLETED", head |-> head,
             error |-> Abs(e), assert |-> TRUE]

QueueSwitch_noerror(e, head, r, error) ==
    CASE e = 0 ->
            [status |-> "FIO_Q_QUEUED", head |-> head, error |-> error,
             assert |-> FALSE]
      [] e \in BusyErrs ->
            [status |-> "FIO_Q_BUSY", head |-> SLIST_INSERT_HEAD(head, r),
             error |-> error, assert |-> FALSE]
      [] OTHER ->
            [status |-> "FIO_Q_COMPLETED", head |-> SLIST_INSERT_HEAD(head, r),
             error |-> error, assert |-> TRUE]

\* The switch on err that ends xnvme_fioe_queue, for the handle r taken from
\* the free list (head is the list without it) and the unit's error field.
QueueSwitch(e, head, r, error) ==
    CASE e = 0 ->
            [status |-> "FIO_Q_QUEUED", head |-> head, error |-> error,
             assert |-> FALSE]
      [] e \in BusyErrs ->
            [status |-> "FIO_Q_BUSY", head |-> SLIST_INSERT_HEAD(head, r),
             error |-> error, assert |-> FALSE]
      [] OTHER ->
            [status |-> "FIO_Q_COMPLETED", head |-> SLIST_INSERT_HEAD(head, r),
             error |-> Abs(e), assert |-> TRUE]

\* fio has dealt with the units it owns before it calls the engine again:
\* their error fields are cleared.
Reaped(units) ==
    [u \in DOMAIN units |->
        IF units[u].st = "free" THEN [st |-> "free", error |-> 0]
        ELSE units[u]]

\* err as the switch on io_u->ddir leaves it: the submission's answer for a
\* read or a write, -1 (and assert(false)) for anything else.
QueueSubmit(f, ddir) ==
    IF ddir \in {"DDIR_READ", "DDIR_WRITE"} THEN SubmitResults(f) ELSE {-1}

\* xnvme_fioe_queue(td, io_u) for unit u on file f; fio hands over a unit it
\* owns, with its error field cleared.
xnvme_fioe_queue(u, f, ddir) ==
    /\ prog = "fioe"
    /\ pc = "idle"
    /\ io_u[u].st = "free"
    /\ IF pool[f] = <<>>
       THEN /\ pc' = "ub"
            /\ UNCHANGED << pool, outq, io_u, err, q_status, faults >>
       ELSE \E e \in QueueSubmit(f, ddir) :
            LET r == SLIST_FIRST(pool[f])
                head == SLIST_REMOVE_HEAD(pool[f])
                sw == QueueSwitch(e, head, r, 0)
                badop == ddir \notin {"DDIR_READ", "DDIR_WRITE"}
            IN  /\ err' = e
                /\ faults' = IF Rationed(f, e) THEN faults + 1 ELSE faults
                /\ IF badop /\ ~ndebug
                   THEN /\ pc' = "aborted"
                        /\ pool' = [pool EXCEPT ![f] = head]
                        /\ UNCHANGED << outq, io_u, q_status >>
                   ELSE /\ pool' = [pool EXCEPT ![f] = sw.head]
                        /\ io_u' = [Reaped(io_u) EXCEPT ![u] =
                              [st |-> IF e = 0 THEN "queued" ELSE "free",
                               error |-> sw.error]]
                        /\ outq' = IF e = 0
                                   THEN [outq EXCEPT ![f] = @ \cup
                                           {Cmd("io", 0, 0, r, u)}]
                                   ELSE outq
                        /\ IF sw.assert /\ ~ndebug
                           THEN /\ pc' = "aborted"
                                /\ UNCHANGED q_status
                           ELSE /\ pc' = "idle"
                                /\ q_status' = sw.status
    /\ ret' = 0
    /\ UNCHANGED << cfgVars, mgmtVars, exVars, cq, xd, iocq, ge, hist >>

\* fio queues the units it owns; they are interchangeable, and it is shown
\* handing over the lowest-numbered one.
Queue == \E u \in Units : \E f \in Devs : \E ddir \in Ddirs :
    /\ \A v \in Units : v < u => io_u[v].st # "free"
    /\ xnvme_fioe_queue(u, f, ddir)

\* What xnvme_async_poke may answer: "ok" (the number it reaped), a
\* transient -EBUSY/-EAGAIN or a hard error; a failing poke reaps nothing.
PokeResults == {0} \cup (IF faults < MaxFaults THEN BusyErrs \cup {-EIO} ELSE {})

\* A faulty limit: 0, which lets the poke reap all there is.
PokeMax_unbounded(max, completed) == 0

\* max - xd->completed, the limit getevents hands to the poke.  The
\* subtraction is unsigned: below zero it wraps to a huge limit (shown here
\* within the range of TLC's integers).
PokeMax(max, completed) ==
    IF completed <= max THEN max - completed
    ELSE 2147483647 - (completed - max) + 1

\* A faulty entry that leaves xd->prev as the last call set it.
EnterPrev_kept(prev) == prev

\* if (xd->prev != -1 && ++xd->prev < nfiles): xd->prev after the condition.
\* The increment is evaluated only when xd->prev is not -1.
EnterPrev(prev) == IF prev # -1 THEN prev + 1 ELSE prev

\* A faulty entry that takes a timeout like no timeout in every build.
TimeoutAborts_never(t) == FALSE

\* if (t) { assert(false); }: with assertions compiled in, a call with a
\* timeout ends at the assertion; with NDEBUG the statement is empty.
TimeoutAborts(t) == t /\ ~ndebug

\* xnvme_fioe_getevents(td, min, max, t) up to the loop: the assertion on a
\* timeout, the start device from xd->prev, and xd->completed = 0.  The
\* slots of iocq at and above xd->completed are never read: they are shown
\* cleared.
GetEventsEnter(min, max, t) ==
    /\ prog = "fioe"
    /\ pc = "idle"
    /\ IF TimeoutAborts(t)
       THEN /\ pc' = "aborted"
            /\ ge' = [min |-> min, max |-> max, fwrap |-> {}, t |-> t]
            /\ UNCHANGED << xd, err, hist, iocq, io_u, q_status >>
       ELSE LET prev == EnterPrev(xd.prev)
                take == xd.prev # -1 /\ prev < nfiles
            IN  /\ xd' = [xd EXCEPT !.prev = prev,
                                    !.cur = IF take THEN prev ELSE @,
                                    !.completed = 0]
                /\ ge' = [min |-> min, max |-> max,
                          fwrap |-> IF take THEN {prev} ELSE {}, t |-> t]
                /\ err' = 0
                /\ pc' = "for"
                /\ hist' = [hist EXCEPT !.start = -1, !.idle = 0, !.seen = {}]
                /\ iocq' = [i \in DOMAIN iocq |-> NULL]
                /\ io_u' = Reaped(io_u)
                /\ q_status' = "none"
    /\ ret' = 0
    /\ UNCHANGED << cfgVars, mgmtVars, exVars, pool, outq, cq, faults >>

\* fio asks for at most max events, 1 or the whole iodepth, and for at least
\* min of them: none, one, or all max.  Here t is NULL.
GetEvents == \E max \in {1, depth} : \E min \in {0, 1, max} :
    GetEventsEnter(min, max, FALSE)

\* The same call with a timeout, t # NULL.
GetEventsTimed == \E max \in {1, depth} : \E min \in {0, 1, max} :
    GetEventsEnter(min, max, TRUE)

\* The loop control of getevents, from the top of for (;;) to the body of
\* the inner loop:
\*   for (;;) { if (fwrap == NULL || xd->cur == nfiles) { fwrap = files;
\*              xd->cur = 0; }
\*              while (fwrap != NULL && xd->cur < nfiles && err >= 0) { body }
\* The body is entered when the while condition holds; else control is back
\* at the top of for (;;).  After a body that steps to the next device the
\* while condition alone is evaluated next, which gives the same result: it
\* fails for xd->cur == nfiles, and the top of for (;;) then resets.
GetEventsLoop ==
    /\ prog = "fioe"
    /\ pc = "for"
    /\ LET reset == ge.fwrap = {} \/ xd.cur = nfiles
           fwrap == IF reset THEN {0} ELSE ge.fwrap
           cur == IF reset THEN 0 ELSE xd.cur
       IN  /\ ge' = [ge EXCEPT !.fwrap = fwrap]
           /\ xd' = [xd EXCEPT !.cur = cur]
           /\ pc' = IF fwrap # {} /\ cur < nfiles /\ err >= 0
                    THEN "poke" ELSE "for"
    /\ UNCHANGED << cfgVars, mgmtVars, exVars, pool, outq, cq, faults, err, ret,
                    q_status, iocq, io_u, hist >>

\* How the body of the while loop ends for the poke's answer e and the
\* completion count c: "assert" (hard error), "return" or "next" device.
GetEventsBody(e, c, min) ==
    CASE e < 0 /\ e \notin BusyErrs -> "assert"
      [] c >= min -> "return"
      [] OTHER -> "next"

\* The history of polls, after a poke of device d that ended the body by
\* `how`: the consecutive pokes made with nothing outstanding anywhere, the
\* devices this call poked, and per device the calls returned since its
\* last poke (reset when a call ends on a hard error).
Polled(d, how) ==
    LET seen == hist.seen \cup {d}
        quiet == \A x \in Devs : Outstanding(x) = 0
    IN  [start |-> IF hist.start = -1 THEN d ELSE hist.start,
         idle |-> IF quiet THEN Min(hist.idle + 1, nfiles) ELSE 0,
         seen |-> seen,
         last |-> IF how = "next" THEN hist.last ELSE d,
         how |-> IF how = "next" THEN hist.how ELSE how,
         starve |-> CASE how = "return" ->
                            [x \in Devs |-> IF x \in seen THEN 0
                                            ELSE Min(hist.starve[x] + 1, nfiles)]
                      [] how = "assert" -> [x \in Devs |-> 0]
                      [] OTHER -> hist.starve]

\* The body of the while loop: the poke of device xd->cur with its
\* callbacks, the switch on a negative err, the return once min completions
\* are in, else the step to the next device.
GetEventsPoke ==
    /\ prog = "fioe"
    /\ pc = "poke"
    /\ \E e \in PokeResults :
        LET d == xd.cur
            n == IF e < 0 THEN 0
                 ELSE PokeCount(d, PokeMax(ge.max, xd.completed))
            st == ReapFioe([xd |-> xd, iocq |-> iocq, io_u |-> io_u,
                            head |-> pool[d], ub |-> FALSE],
                           SubSeq(cq[d], 1, n))
            res == IF e < 0 THEN e ELSE n
            how == GetEventsBody(res, st.xd.completed, ge.min)
        IN  /\ err' = res
            /\ faults' = IF e < 0 THEN faults + 1 ELSE faults
            /\ cq' = [cq EXCEPT ![d] = SubSeq(@, n + 1, Len(@))]
            /\ pool' = [pool EXCEPT ![d] = st.head]
            /\ iocq' = st.iocq
            /\ io_u' = st.io_u
            /\ hist' = Polled(d, how)
            /\ CASE st.ub ->
                      /\ pc' = "ub"
                      /\ xd' = st.xd
                      /\ UNCHANGED << ret, ge >>
                 [] ~st.ub /\ how = "assert" ->
                      /\ pc' = IF ndebug THEN "ret" ELSE "aborted"
                      /\ ret' = IF ndebug THEN 0 ELSE ret
                      /\ xd' = st.xd
                      /\ UNCHANGED ge
                 [] ~st.ub /\ how = "return" ->
                      /\ pc' = "ret"
                      /\ ret' = st.xd.completed
                      /\ xd' = [st.xd EXCEPT !.prev = d]
                      /\ UNCHANGED ge
                 [] ~st.ub /\ how = "next" ->
                      /\ pc' = "for"
                      /\ xd' = [st.xd EXCEPT !.cur = d + 1]
                      /\ ge' = [ge EXCEPT !.fwrap = {d + 1}]
                      /\ UNCHANGED ret
    /\ UNCHANGED << cfgVars, mgmtVars, exVars, outq, q_status >>

\* The locals of getevents, which end with the call.
NoCall == [min |-> 0, max |-> 0, fwrap |-> {}, t |-> FALSE]

\* xnvme_fioe_event(td, event) for every event below the count getevents
\* returned: fio takes the units iocq[0 .. ret - 1] back.  The slots of
\* iocq are not read again before the next call stores into them: they are
\* shown cleared, like the locals that end with the call.
Event ==
    /\ prog = "fioe"
    /\ pc = "ret"
    /\ IF \E i \in 0 .. (ret - 1) : i >= xd.completed
       THEN /\ pc' = IF ndebug THEN "ub" ELSE "aborted"
            /\ UNCHANGED io_u
       ELSE /\ pc' = "idle"
            /\ io_u' = [u \in Units |->
                          IF \E i \in 0 .. (ret - 1) : iocq[i] = u
                          THEN [st |-> "free", error |-> 0]
                          ELSE io_u[u]]
    /\ ge' = NoCall
    /\ err' = 0
    /\ ret' = 0
    /\ iocq' = [i \in DOMAIN iocq |-> NULL]
    /\ hist' = [hist EXCEPT !.start = -1, !.idle = 0, !.seen = {}]
    /\ UNCHANGED << cfgVars, mgmtVars,
                    exVars, pool, outq, cq, faults, q_status, xd >>

\* xnvme_fioe_cleanup(td): for every file, _dev_close under g_serialize, that
\* is xnvme_async_term, xnvme_req_pool_free and xnvme_dev_close, with no wait
\* of its own.  fio calls it at the end of a job, when it holds all of its
\* units again.  What the contexts and pools held last is kept, to show
\* what was torn down.
Cleanup ==
    /\ prog = "fioe"
    /\ pc = "idle"
    /\ \A u \in Units : io_u[u].st = "free"
    /\ pc' = "done"
    /\ UNCHANGED << cfgVars, mgmtVars, exVars, fioeVars, pool, outq, cq,
                    faults, err, ret >>

(* ------- zone management: xnvme_fioe_reset_wp, _report_zones ----------- *)

\* x >> n and x << n on unsigned integers.
Shr(x, n) == x \div (2 ^ n)

Shl(x, n) == x * (2 ^ n)

\* geo->tbytes, the size of the device in bytes.
tbytes == Shl(NZones * NSect, Ssw)

\* ((offset >> ssw) / geo->nsect) * geo->nsect: the start LBA of the zone
\* that holds byte `offset`.
ZoneStart(offset) == (Shr(offset, Ssw) \div NSect) * NSect

\* struct znd_report *rprt when there is no report.
NoReport == [null |-> TRUE, descrs |-> <<>>]

\* No zone management call is running.
NoZbd ==
    [pc |-> "idle", op |-> "none", offset |-> 0, length |-> 0, nr_zones |-> 0,
     first |-> 0, last |-> 0, zslba |-> 0, err |-> 0, tried |-> <<>>,
     dev |-> FALSE, rprt |-> NoReport, zbdz |-> <<>>, ret |-> 0]

\* What znd_cmd_mgmt_send(.., zslba, ZND_SEND_RESET, .., XNVME_CMD_SYNC, &req)
\* may give: err, and the completion status in req.  A reset of an LBA past
\* the last zone is not accepted by the device.
MgmtResults(zslba) ==
    IF zslba < NZones * NSect
    THEN {[err |-> 0, status |-> 0], [err |-> 0, status |-> 1],
          [err |-> -EINVAL, status |-> 0]}
    ELSE {[err |-> 0, status |-> 1], [err |-> -EINVAL, status |-> 0]}

\* A faulty test that looks at the submission result alone.
ResetFailed_erronly(r) == r.err # 0

\* if (err || xnvme_req_cpl_status(&req))
ResetFailed(r) == r.err # 0 \/ r.status # 0

\* xnvme_fioe_reset_wp(td, f, offset, length) up to the loop: first and last.
\* fio hands over a byte range of the device.
ResetWpEnter ==
    /\ prog = "zbd"
    /\ zbd.pc = "idle"
    /\ \E offset \in 0 .. tbytes : \E length \in 0 .. (tbytes - offset) :
        zbd' = [NoZbd EXCEPT !.pc = "reset", !.op = "reset_wp",
                             !.offset = offset, !.length = length,
                             !.first = ZoneStart(offset),
                             !.last = ZoneStart(offset + length),
                             !.zslba = ZoneStart(offset)]
    /\ UNCHANGED << cfgVars, exVars, fioeVars, thr, fw, pool, outq, cq, faults,
                    pc, err, ret >>

\* One turn of for (zslba = first; zslba <= last; zslba += geo->nsect): the
\* reset of the zone at zslba, and the way out on a failure or at the end.
ResetWpStep ==
    /\ prog = "zbd"
    /\ zbd.pc = "reset"
    /\ IF zbd.zslba <= zbd.last
       THEN \E r \in MgmtResults(zbd.zslba) :
            LET failed == ResetFailed(r)
                tried == Append(zbd.tried, [zslba |-> zbd.zslba,
                                            ok |-> r.err = 0 /\ r.status = 0])
            IN  zbd' = IF failed
                       THEN [zbd EXCEPT !.tried = tried, !.pc = "ret",
                                        !.err = IF r.err # 0 THEN r.err
                                                ELSE -EIO,
                                        !.ret = IF r.err # 0 THEN r.err
                                                ELSE -EIO]
                       ELSE [zbd EXCEPT !.tried = tried, !.err = r.err,
                                        !.zslba = @ + NSect]
       ELSE zbd' = [zbd EXCEPT !.pc = "ret", !.ret = zbd.err]
    /\ UNCHANGED << cfgVars, exVars, fioeVars, thr, fw, pool, outq, cq, faults,
                    pc, err, ret >>

\* The zone states and the zone type libznd names, and a raw value of the
\* descriptor field that names none of them.
ZndStates ==
    {"ZND_STATE_EMPTY", "ZND_STATE_IOPEN", "ZND_STATE_EOPEN",
     "ZND_STATE_CLOSED", "ZND_STATE_FULL", "ZND_STATE_RONLY",
     "ZND_STATE_OFFLINE"}

RawStates == ZndStates \cup {"0x0"}

RawTypes == {"ZND_TYPE_SEQWR", "0x0"}

\* A faulty table that reports a read-only zone as full.
ZoneCond_ronlyfull(zs) ==
    CASE zs = "ZND_STATE_EMPTY" -> "ZBD_ZONE_COND_EMPTY"
      [] zs = "ZND_STATE_IOPEN" -> "ZBD_ZONE_COND_IMP_OPEN"
      [] zs = "ZND_STATE_EOPEN" -> "ZBD_ZONE_COND_EXP_OPEN"
      [] zs = "ZND_STATE_CLOSED" -> "ZBD_ZONE_COND_CLOSED"
      [] zs \in {"ZND_STATE_FULL", "ZND_STATE_RONLY"} -> "ZBD_ZONE_COND_FULL"
      [] OTHER -> "ZBD_ZONE_COND_OFFLINE"

\* switch (descr->zs): the condition fio is told for raw state zs.
\* ZND_STATE_RONLY and ZND_STATE_OFFLINE share their branch with default.
ZoneCond(zs) ==
    CASE zs = "ZND_STATE_EMPTY" -> "ZBD_ZONE_COND_EMPTY"
      [] zs = "ZND_STATE_IOPEN" -> "ZBD_ZONE_COND_IMP_OPEN"
      [] zs = "ZND_STATE_EOPEN" -> "ZBD_ZONE_COND_EXP_OPEN"
      [] zs = "ZND_STATE_CLOSED" -> "ZBD_ZONE_COND_CLOSED"
      [] zs = "ZND_STATE_FULL" -> "ZBD_ZONE_COND_FULL"
      [] OTHER -> "ZBD_ZONE_COND_OFFLINE"

\* The descriptor the device reports for the i-th zone from slba, of type zt
\* in state zs; the write pointer goes with the state.
Descr(slba, i, zt, zs) ==
    LET zslba == slba + (i - 1) * NSect
    IN  [zslba |-> zslba, zcap |-> NSect, zt |-> zt, zs |-> zs,
         wp |-> CASE zs = "ZND_STATE_EMPTY" -> zslba
                  [] zs = "ZND_STATE_FULL" -> zslba + NSect
                  [] OTHER -> zslba + 1]

\* The reports znd_report_from_dev(dev, slba, nr_zones, 0) may give: none
\* (NULL, errno set), or up to nr_zones descriptors.
Reports(slba, nr_zones) ==
    {NoReport} \cup
    UNION {{[null |-> FALSE,
             descrs |-> [i \in 1 .. n |-> Descr(slba, i, f[i][1], f[i][2])]] :
                f \in [1 .. n -> RawTypes \X RawStates]} : n \in 0 .. nr_zones}

\* One turn of the transform loop for a sequential-write-required zone.
ZbdZone(descr) ==
    [start |-> Shl(descr.zslba, Ssw), len |-> Shl(descr.zcap, Ssw),
     wp |-> Shl(descr.wp, Ssw), type |-> "ZBD_ZONE_TYPE_SWR",
     cond |-> ZoneCond(descr.zs)]

\* The transform loop: it fills zbdz[idx] for every descriptor up to the
\* first whose type is not ZND_TYPE_SEQWR, where it leaves with -EIO (the
\* entry it stops at has no type and no condition: it is not shown).
Transform(rprt) ==
    LET bad == {i \in 1 .. Len(rprt) : rprt[i].zt # "ZND_TYPE_SEQWR"}
        stop == IF bad = {} THEN Len(rprt) + 1
                ELSE CHOOSE i \in bad : \A j \in bad : i <= j
    IN  [err |-> IF bad = {} THEN 0 ELSE -EIO,
         zbdz |-> [i \in 1 .. (stop - 1) |-> ZbdZone(rprt[i])]]

\* xnvme_fioe_report_zones(td, f, offset, zbdz, nr_zones): err, the entries
\* of zbdz it filled and its result, for the outcome `dev` of xnvme_dev_open
\* and the report rprt.  errno after a failed report is EIO.  On a failed
\* open err is still 0 at exit:, where xnvme_buf_virt_free and
\* xnvme_dev_close are handed NULL and return.
ReportZones(dev, offset, nr_zones, rprt) ==
    LET nentries == Len(rprt.descrs)
        out == CASE ~dev -> [err |-> 0, zbdz |-> <<>>]
                 [] dev /\ rprt.null -> [err |-> -EIO, zbdz |-> <<>>]
                 [] dev /\ ~rprt.null /\ nentries # nr_zones ->
                        [err |-> 1, zbdz |-> <<>>]
                 [] dev /\ ~rprt.null /\ nentries = nr_zones
                        /\ offset > tbytes -> [err |-> 0, zbdz |-> <<>>]
                 [] OTHER -> Transform(rprt.descrs)
    IN  [err |-> out.err, zbdz |-> out.zbdz,
         ret |-> IF out.err # 0 THEN out.err ELSE nr_zones]

\* fio asks for the zones from a byte offset at or next to a zone start,
\* the end of the device included.
ReportOffsets == {Shl(z * NSect, Ssw) + b : z \in 0 .. NZones, b \in {0, 1}}

\* A call of xnvme_fioe_report_zones.  No report is asked of a device that
\* could not be opened.
ReportZonesCall ==
    /\ prog = "zbd"
    /\ zbd.pc = "idle"
    /\ \E dev \in BOOLEAN : \E offset \in ReportOffsets :
       \E nr_zones \in 1 .. MaxNrZones :
       \E rprt \in (IF dev THEN Reports(ZoneStart(offset), nr_zones)
                    ELSE {NoReport}) :
        LET res == ReportZones(dev, offset, nr_zones, rprt)
        IN  zbd' = [NoZbd EXCEPT !.pc = "ret", !.op = "report_zones",
                                 !.offset = offset, !.nr_zones = nr_zones,
                                 !.dev = dev,
                                 !.rprt = rprt,
                                 !.err = res.err, !.zbdz = res.zbdz,
                                 !.ret = res.ret]
    /\ UNCHANGED << cfgVars, exVars, fioeVars, thr, fw, pool, outq, cq, faults,
                    pc, err, ret >>

\* The call has returned; fio goes on to the next one.
ZbdReturn ==
    /\ prog = "zbd"
    /\ zbd.pc = "ret"
    /\ zbd' = NoZbd
    /\ UNCHANGED << cfgVars, exVars, fioeVars, thr, fw, pool, outq, cq, faults,
                    pc, err, ret >>

(* ------------------ g_serialize and the engine's threads --------------- *)

Threads == 1 .. NThreads

\* The engine functions a thread may be in.
Ops ==
    {"init", "cleanup", "get_zoned_model", "report_zones", "reset_wp",
     "queue", "getevents"}

\* No thread is in the engine; g_serialize (PTHREAD_MUTEX_INITIALIZER) is
\* free.  thr.at[t] is the step thread t is in and has not finished.
NoThr ==
    [lock |-> 0, op |-> [t \in Threads |-> "none"],
     at |-> [t \in Threads |-> 0]]

\* Faulty functions: get_zoned_model opens the device without the lock
\* ("skip" where it is not taken and not freed).
Steps_openunlocked(op) ==
    CASE op = "init" -> << "lock", "xnvme_dev_open", "unlock" >>
      [] op = "cleanup" -> << "lock", "_dev_close", "unlock" >>
      [] op = "get_zoned_model" ->
            << "skip", "xnvme_dev_open", "skip", "xnvme_dev_get_geo",
               "lock", "xnvme_dev_close", "unlock" >>
      [] op = "report_zones" ->
            << "lock", "xnvme_dev_open", "unlock", "znd_report_from_dev",
               "lock", "xnvme_dev_close", "unlock" >>
      [] op = "reset_wp" -> << "znd_cmd_mgmt_send" >>
      [] op = "queue" -> << "xnvme_cmd_read" >>
      [] op = "getevents" -> << "xnvme_async_poke" >>

\* The calls each engine function makes on the lock and on the backend, in
\* program order: pthread_mutex_lock(&g_serialize) as "lock",
\* pthread_mutex_unlock(&g_serialize) as "unlock", else the callee.
Steps(op) ==
    CASE op = "init" -> << "lock", "xnvme_dev_open", "unlock" >>
      [] op = "cleanup" -> << "lock", "_dev_close", "unlock" >>
      [] op = "get_zoned_model" ->
            << "lock", "xnvme_dev_open", "unlock", "xnvme_dev_get_geo",
               "lock", "xnvme_dev_close", "unlock" >>
      [] op = "report_zones" ->
            << "lock", "xnvme_dev_open", "unlock", "znd_report_from_dev",
               "lock", "xnvme_dev_close", "unlock" >>
      [] op = "reset_wp" -> << "znd_cmd_mgmt_send" >>
      [] op = "queue" -> << "xnvme_cmd_read" >>
      [] op = "getevents" -> << "xnvme_async_poke" >>

\* Where a function goes after step i: to the next step, or
\*   get_zoned_model: out after the open failed (return 1) and out of the
\*     switch's default (return -EINVAL), both without the close;
\*   report_zones: to exit: after the open failed;
\*   reset_wp: to the reset of the next zone.
Goes(op, i) ==
    CASE op = "get_zoned_model" /\ i \in {3, 4} -> {i + 1, 8}
      [] op = "report_zones" /\ i = 3 -> {4, 5}
      [] op = "reset_wp" /\ i = 1 -> {1, 2}
      [] OTHER -> {i + 1}

\* A thread enters an engine function.
ThreadCall ==
    /\ prog = "thr"
    /\ \E t \in Threads : \E op \in Ops :
        /\ thr.op[t] = "none"
        /\ thr' = [thr EXCEPT !.op[t] = op, !.at[t] = 1]
    /\ UNCHANGED << cfgVars, exVars, fioeVars, zbd, fw, pool, outq, cq, faults,
                    pc, err, ret >>

\* A thread finishes the step it is in: pthread_mutex_lock returns once the
\* mutex is free and takes it, pthread_mutex_unlock frees it, a callee
\* returns.
ThreadStep ==
    /\ prog = "thr"
    /\ \E t \in Threads :
        /\ thr.op[t] # "none"
        /\ thr.at[t] <= Len(Steps(thr.op[t]))
        /\ LET step == Steps(thr.op[t])[thr.at[t]]
           IN  /\ step = "lock" => thr.lock = 0
               /\ \E next \in Goes(thr.op[t], thr.at[t]) :
                    thr' = [thr EXCEPT
                              !.lock = CASE step = "lock" -> t
                                         [] step = "unlock" -> 0
                                         [] OTHER -> @,
                              !.at[t] = next]
    /\ UNCHANGED << cfgVars, exVars, fioeVars, zbd, fw, pool, outq, cq, faults,
                    pc, err, ret >>

\* The function returns to fio.
ThreadReturn ==
    /\ prog = "thr"
    /\ \E t \in Threads :
        /\ thr.op[t] # "none"
        /\ thr.at[t] > Len(Steps(thr.op[t]))
        /\ thr' = [thr EXCEPT !.op[t] = "none", !.at[t] = 0]
    /\ UNCHANGED << cfgVars, exVars, fioeVars, zbd, fw, pool, outq, cq, faults,
                    pc, err, ret >>

(* ----- device handles: xnvme_fioe_init, _cleanup, _get_zoned_model ------ *)

\* A zero-filled struct xnvme_fioe_fwrap: dev, ctx and reqs are NULL.
NoFwrap == [dev |-> FALSE, ctx |-> FALSE, reqs |-> FALSE]

\* xd after memset, before the files are opened: no handle is open.  open
\* holds the files whose handle xnvme_dev_open returned and xnvme_dev_close
\* was not given yet, closes counts the xnvme_dev_close of each file's
\* handle; zm counts the handles get_zoned_model opened and closed.
NoFw ==
    [pc |-> "init",
     nallocated |-> 0,
     files |-> [f \in Devs |-> NoFwrap],
     open |-> {},
     closes |-> [f \in Devs |-> 0],
     ret |-> 0,
     zm |-> [calls |-> 0, opened |-> 0, closed |-> 0, ret |-> 0,
             model |-> "none"]]

\* The ways _dev_open ends: return 0, or return 1 at the check of --be, at
\* xnvme_dev_open, xnvme_async_init, xnvme_req_pool_alloc or
\* xnvme_req_pool_init.
DevOpenEnds ==
    {"ok", "be", "xnvme_dev_open", "xnvme_async_init", "xnvme_req_pool_alloc",
     "xnvme_req_pool_init"}

\* _dev_open(td, f): the fwrap it leaves when it ends by `how`.  Nothing
\* that was set up is undone on a failure.
dev_open(how) ==
    CASE how \in {"be", "xnvme_dev_open"} -> NoFwrap
      [] how = "xnvme_async_init" ->
            [dev |-> TRUE, ctx |-> FALSE, reqs |-> FALSE]
      [] how = "xnvme_req_pool_alloc" ->
            [dev |-> TRUE, ctx |-> TRUE, reqs |-> FALSE]
      [] OTHER -> [dev |-> TRUE, ctx |-> TRUE, reqs |-> TRUE]

\* xnvme_fioe_init(td): for_each_file { if (_dev_open(td, f)) return 1;
\* ++(xd->nallocated); }.  The first k files are opened; file k, if there is
\* one, fails by `how` and init returns 1.  The check of --be is the same
\* for every file: it can fail only for the first.  The returns ahead of
\* the loop are taken before xd exists and open nothing: they are left out.
xnvme_fioe_init ==
    /\ prog = "dev"
    /\ fw.pc = "init"
    /\ \E k \in 0 .. nfiles : \E how \in DevOpenEnds :
        /\ how = "ok" <=> k = nfiles
        /\ how = "be" => k = 0
        /\ fw' = [fw EXCEPT
                    !.pc = IF k = nfiles THEN "ready" ELSE "failed",
                    !.ret = IF k = nfiles THEN 0 ELSE 1,
                    !.nallocated = k,
                    !.files = [f \in Devs |->
                                 CASE f < k -> dev_open("ok")
                                   [] f = k -> dev_open(how)
                                   [] OTHER -> NoFwrap],
                    !.open = {f \in Devs :
                                f < k \/ (f = k /\ dev_open(how).dev)}]
    /\ UNCHANGED << cfgVars, exVars, fioeVars, zbd, thr, pool, outq, cq,
                    faults, pc, err, ret >>

\* xnvme_fioe_cleanup(td): _dev_close for the files below xd->nallocated,
\* which terminates the context, frees the pool, closes the device and
\* zero-fills the fwrap.  fio calls it once, after init, whether init
\* returned 0 or not.
xnvme_fioe_cleanup ==
    /\ prog = "dev"
    /\ fw.pc \in {"ready", "failed"}
    /\ fw' = [fw EXCEPT
                !.pc = "done",
                !.files = [f \in Devs |->
                             IF f < fw.nallocated THEN NoFwrap ELSE @[f]],
                !.open = {f \in @ : ~(f < fw.nallocated)},
                !.closes = [f \in Devs |->
                              IF f < fw.nallocated /\ fw.files[f].dev
                              THEN @[f] + 1 ELSE @[f]]]
    /\ UNCHANGED << cfgVars, exVars, fioeVars, zbd, thr, pool, outq, cq,
                    faults, pc, err, ret >>

\* The values of geo->type: the three the switch names, and any other.
GeoTypes ==
    {"XNVME_GEO_UNKNOWN", "XNVME_GEO_CONVENTIONAL", "XNVME_GEO_ZONED", "0xff"}

\* xnvme_fioe_get_zoned_model(td, f, model): ZBD_IGNORE for a file that is
\* no device; return 1 when the device does not open; else the model by the
\* type of the geometry and the close of the device, but for a type the
\* switch does not name: that one returns -EINVAL from inside the switch.
xnvme_fioe_get_zoned_model ==
    /\ prog = "dev"
    /\ fw.zm.calls < MaxModelCalls
    /\ \E blockdev \in BOOLEAN : \E dev \in BOOLEAN : \E type \in GeoTypes :
        fw' = [fw EXCEPT !.zm =
            CASE ~blockdev ->
                    [@ EXCEPT !.calls = @ + 1, !.ret = 0,
                              !.model = "ZBD_IGNORE"]
              [] blockdev /\ ~dev ->
                    [@ EXCEPT !.calls = @ + 1, !.ret = 1, !.model = "none"]
              [] blockdev /\ dev /\ type = "0xff" ->
                    [@ EXCEPT !.calls = @ + 1, !.opened = @ + 1,
                              !.ret = -EINVAL, !.model = "ZBD_NONE"]
              [] OTHER ->
                    [@ EXCEPT !.calls = @ + 1, !.opened = @ + 1,
                              !.closed = @ + 1, !.ret = 0,
                              !.model = IF type = "XNVME_GEO_ZONED"
                                        THEN "ZBD_HOST_MANAGED"
                                        ELSE "ZBD_NONE"]]
    /\ UNCHANGED << cfgVars, exVars, fioeVars, zbd, thr, pool, outq, cq,
                    faults, pc, err, ret >>

(* ------------------------------ the runs ------------------------------- *)

NoTry == [req |-> NULL, lba |-> 0, pay |-> 0, err |-> 0]

\* xnvme_req_pool_alloc(&reqs, qd + 1) and xnvme_req_pool_init: the free
\* list of a fresh pool holds its qd + 1 handles.
PoolInit(qd) == [i \in 1 .. (qd + 1) |-> i]

\* A run at control location `at` whose pools have the free list `head`,
\* with nothing submitted yet.  read drives a Full zone, write and append
\* drive an Empty one.
Fresh(at, head) ==
    /\ pool = [d \in Devs |-> head]
    /\ outq = [d \in Devs |-> {}]
    /\ cq = [d \in Devs |-> <<>>]
    /\ wp = IF prog = "read" THEN zone.zslba + zone.zcap ELSE zone.zslba
    /\ faults = 0
    /\ pc = at
    /\ sect = 0
    /\ payload = 0
    /\ req = NULL
    /\ err = 0
    /\ cb_args = [ecount |-> 0, completed |-> 0, submitted |-> 0]
    /\ ret = 0
    /\ xd = [completed |-> 0, ecount |-> 0, prev |-> -1, cur |-> 0]
    /\ iocq = [i \in 0 .. (depth - 1) |-> NULL]
    /\ io_u = [u \in 1 .. depth |-> [st |-> "free", error |-> 0]]
    /\ ge = NoCall
    /\ q_status = "none"
    /\ lastTry = NoTry
    /\ poked = FALSE
    /\ hist = [start |-> -1, idle |-> 0, seen |-> {}, last |-> -1,
               how |-> "none", starve |-> [d \in Devs |-> 0]]
    /\ offsets = <<>>
    /\ failedAt = {}
    /\ zbd = NoZbd
    /\ thr = NoThr
    /\ fw = NoFw

\* The state when the drive loop of an example starts, or when the engine's
\* init has returned 0: contexts and pools are set up, nothing is in flight.
Setup == Fresh(IF prog \in Examples THEN "loop" ELSE "idle", PoolInit(depth))

\* A run of an example or of the engine's I/O path.
Init ==
    /\ prog \in Progs
    /\ ndebug \in (IF prog = "fioe" THEN BOOLEAN ELSE {TRUE})
    /\ depth \in 1 .. MaxDepth
    /\ nfiles \in (IF prog = "fioe"
                   THEN {n \in 1 .. MaxFiles : n * depth <= MaxLoad}
                   ELSE {1})
    /\ Setup

\* The engine with one device, for the calls that do no I/O of their own:
\* the zone management calls of one thread ("zbd"), and the functions
\* several threads are in at once ("thr").
InitMgmt(p) ==
    /\ prog = p
    /\ ndebug = TRUE
    /\ depth = 1
    /\ nfiles = 1
    /\ Setup

InitZbd == InitMgmt("zbd")

\* An example from the entry of sub_async_read / _write / _append: nothing
\* is set up, ctx and reqs are NULL.
InitStart ==
    /\ prog \in Examples
    /\ ndebug = TRUE
    /\ depth \in 1 .. MaxDepth
    /\ nfiles = 1
    /\ Fresh("start", <<>>)

InitLock == InitMgmt("thr")

\* The engine before its init, with one to MaxFiles files.
InitDev ==
    /\ prog = "dev"
    /\ ndebug = TRUE
    /\ depth = 1
    /\ nfiles \in 1 .. MaxFiles
    /\ Setup

Next ==
    \/ DeviceComplete
    \/ ForLoop
    \/ Submit
    \/ Poke
    \/ WaitReap
    \/ WaitReturn
    \/ Exit
    \/ Queue
    \/ GetEvents
    \/ GetEventsLoop
    \/ GetEventsPoke
    \/ Event
    \/ Cleanup

Spec == Init /\ [][Next]_vars

\* The engine's I/O path on one file, with calls of getevents that pass a
\* timeout among those that pass none.
InitTimed ==
    /\ prog = "fioe"
    /\ ndebug \in BOOLEAN
    /\ depth \in 1 .. MaxDepth
    /\ nfiles = 1
    /\ Setup

NextTimed ==
    \/ DeviceComplete
    \/ Queue
    \/ GetEvents
    \/ GetEventsTimed
    \/ GetEventsLoop
    \/ GetEventsPoke
    \/ Event
    \/ Cleanup

SpecTimed == InitTimed /\ [][NextTimed]_vars

\* The zone management calls of the engine, one at a time.
NextZbd ==
    \/ ResetWpEnter
    \/ ResetWpStep
    \/ ReportZonesCall
    \/ ZbdReturn

SpecZbd == InitZbd /\ [][NextZbd]_vars

\* An example from its entry to its return.
NextStart ==
    \/ Prepare
    \/ DeviceComplete
    \/ ForLoop
    \/ Submit
    \/ Poke
    \/ WaitReap
    \/ WaitReturn
    \/ Exit

SpecStart == InitStart /\ [][NextStart]_vars

\* The read example from the start of its drive loop, with a process that
\* keeps running and a backend that completes what is in flight.
InitRead ==
    /\ prog = "read"
    /\ ndebug = TRUE
    /\ depth \in 1 .. MaxDepth
    /\ nfiles = 1
    /\ Setup

\* The examples from the start of their drive loops.
InitLoops ==
    /\ prog \in Examples
    /\ ndebug = TRUE
    /\ depth \in 1 .. MaxDepth
    /\ nfiles = 1
    /\ Setup

\* A step of the process that runs the example.
ExampleStep == ForLoop \/ Submit \/ Poke \/ WaitReap \/ WaitReturn \/ Exit

NextLoops ==
    \/ DeviceComplete
    \/ ForLoop
    \/ Submit
    \/ Poke
    \/ WaitReap
    \/ WaitReturn
    \/ Exit

\* The process is not suspended for ever; the device completes a command
\* that polls keep asking for (a completion is seen only at a poll, between
\* which the loop is elsewhere: the fairness of the device is strong).
FairRead == WF_vars(ExampleStep) /\ SF_vars(DeviceComplete)

SpecRead == InitRead /\ [][NextLoops]_vars /\ FairRead

SpecLoops == InitLoops /\ [][NextLoops]_vars

\* Threads in the engine's functions.
NextLock ==
    \/ ThreadCall
    \/ ThreadStep
    \/ ThreadReturn

SpecLock == InitLock /\ [][NextLock]_vars

\* The calls that open and close device handles.
NextDev ==
    \/ xnvme_fioe_init
    \/ xnvme_fioe_cleanup
    \/ xnvme_fioe_get_zoned_model

SpecDev == InitDev /\ [][NextDev]_vars

(* ------------------------------ properties ----------------------------- *)

\* The handles of a pool of a context of depth qd.
Handles == 1 .. (depth + 1)

\* The handles of device d that outstanding commands carry.
Owned(d) ==
    {c.req : c \in outq[d]} \cup {cq[d][i].req : i \in 1 .. Len(cq[d])}

\* How many outstanding commands of device d carry handle h.
OwnerCount(d, h) ==
    Cardinality({c \in outq[d] : c.req = h})
    + Cardinality({i \in 1 .. Len(cq[d]) : cq[d][i].req = h})

\* The handle a drive loop holds: acquired, not yet submitted.
Held == IF prog \in Examples /\ req # NULL THEN {req} ELSE {}

\* C1: at every moment a request handle is on the free list of its pool
\* exactly once, or owned by exactly one outstanding command, or held by the
\* drive loop that has just acquired it; never two of these, so no handle is
\* acquired again before it has been released.  (A process that aborted at
\* an assertion has dropped the handle it held.)
C1_HandleFreeOrOwned ==
    \A d \in Devs :
        /\ Cardinality(Range(pool[d])) = Len(pool[d])
        /\ Cardinality(Owned(d)) = Outstanding(d)
        /\ Range(pool[d]) \cap Owned(d) = {}
        /\ Range(pool[d]) \cap Held = {}
        /\ Owned(d) \cap Held = {}
        /\ Range(pool[d]) \cup Owned(d) \cup Held \subseteq Handles
        /\ pc \notin {"aborted", "ub"} =>
              Range(pool[d]) \cup Owned(d) \cup Held = Handles

\* A handle released by a completion callback is in flight again while
\* another command is complete and not yet reaped.
C1_Witness ==
    /\ prog \in Examples
    /\ cb_args.completed > 0
    /\ outq[0] # {}
    /\ cq[0] # <<>>
    /\ pool[0] # <<>>

\* A step of a drive loop that makes a submission attempt: at submit: every
\* step but a completion on the device.
SubmitStep == prog \in Examples /\ pc = "submit" /\ cq' = cq

\* A step that is a call of xnvme_fioe_queue: the only steps of the engine
\* that start and end between calls without a completion on the device, or
\* that abort with a new submission result.
QueueStep ==
    /\ prog = "fioe"
    /\ pc = "idle"
    /\ cq' = cq
    /\ \/ pc' = "idle"
       \/ pc' = "aborted" /\ err' # err

\* C2: the commands in flight on a context never exceed its depth; a
\* submission attempted at capacity answers -EBUSY or -EAGAIN and leaves the
\* commands in flight, the pool and the submitted/completed counters as they
\* were, and a submission is accepted only below capacity.
C2_DepthBound ==
    /\ [](\A d \in Devs : Outstanding(d) <= depth)
    /\ [][/\ SubmitStep =>
               /\ Outstanding(0) >= depth => err' \in BusyErrs
               /\ err' = 0 => Outstanding(0) < depth
               /\ err' \in BusyErrs =>
                     /\ pc' = "poke"
                     /\ UNCHANGED << outq, cq, pool, cb_args, req, sect,
                                     payload >>
          /\ QueueStep =>
               /\ err' \in BusyErrs =>
                     /\ q_status' = "FIO_Q_BUSY"
                     /\ UNCHANGED << outq, cq, pool, xd >>
               /\ \A f \in Devs :
                     outq'[f] # outq[f] => Outstanding(f) < depth]_vars

\* A drive loop has been answered busy by a context that is full, after
\* earlier commands went through.
C2_Witness ==
    /\ prog \in Examples
    /\ pc = "poke"
    /\ err \in BusyErrs
    /\ Outstanding(0) = depth
    /\ cb_args.completed > 0

\* C3: in the drive loops a submission that answers -EBUSY or -EAGAIN is
\* followed by a poke before the next attempt, the next attempt resubmits
\* the same command (handle, LBA and payload position), and sect advances,
\* by one, only after a submission that succeeded.
C3_BusyPokeRetry ==
    [][/\ SubmitStep =>
            /\ err' \in BusyErrs => pc' = "poke"
            /\ lastTry.err \in BusyErrs =>
                  /\ poked
                  /\ lastTry'.req = lastTry.req
                  /\ lastTry'.lba = lastTry.lba
                  /\ lastTry'.pay = lastTry.pay
       /\ (prog \in Examples /\ pc = "poke" /\ pc' # "poke") =>
            pc' = "submit" /\ poked' /\ UNCHANGED << req, sect, payload >>
       /\ sect' # sect => sect' = sect + 1 /\ lastTry'.err = 0]_vars

\* A busy submission has been followed by the poke, and the same command is
\* about to be submitted again.
C3_Witness ==
    /\ prog \in Examples
    /\ pc = "submit"
    /\ lastTry.err \in BusyErrs
    /\ poked
    /\ req = lastTry.req
    /\ CmdLba = lastTry.lba
    /\ payload = lastTry.pay

\* Whether getevents, at the top of for (;;), gets to another poke.
CanPoke ==
    LET reset == ge.fwrap = {} \/ xd.cur = nfiles
        fwrap == IF reset THEN {0} ELSE ge.fwrap
        cur == IF reset THEN 0 ELSE xd.cur
    IN  fwrap # {} /\ cur < nfiles /\ err >= 0

\* C4: a getevents call whose poke answered -EBUSY or -EAGAIN keeps polling:
\* while a device holds the completions the call still needs to reach min,
\* the call gets to another poke.
C4_BusyPokeKeepsPolling ==
    (/\ prog = "fioe"
     /\ pc = "for"
     /\ \E d \in Devs : Len(cq[d]) > 0 /\ Len(cq[d]) >= ge.min - xd.completed)
        => CanPoke

\* C5: getevents returns once every device has been polled in a full
\* revolution with nothing outstanding: it never goes on to poke again after
\* nfiles successive pokes made while no command was in flight.
C5_ReturnsWhenIdle ==
    ~(prog = "fioe" /\ pc = "poke" /\ hist.idle >= nfiles)

\* The first poke of a getevents call.
FirstPoke == prog = "fioe" /\ pc = "poke" /\ hist.start = -1 /\ hist'.start # -1

QueuedOrBusy ==
    /\ err' = 0 =>
          /\ q_status' = "FIO_Q_QUEUED"
          /\ pc' = "idle"
          /\ \E f \in Devs : \E u \in Units :
                /\ pool[f] # <<>>
                /\ io_u[u].st = "free"
                /\ io_u'[u].st = "queued"
                /\ pool' = [pool EXCEPT ![f] = SLIST_REMOVE_HEAD(@)]
                /\ outq' = [outq EXCEPT ![f] =
                               @ \cup {Cmd("io", 0, 0, SLIST_FIRST(pool[f]), u)}]
    /\ err' \in BusyErrs =>
          /\ q_status' = "FIO_Q_BUSY"
          /\ pc' = "idle"
          /\ UNCHANGED << pool, outq, cq, xd >>

\* The handle is back and a unit carries |err|.
PutBackWithError ==
    /\ UNCHANGED << pool, outq, cq, xd >>
    /\ \E u \in Units : io_u'[u] = [st |-> "free", error |-> Abs(err')]

C9_OnlyCallbackReinserts ==
    [][QueueStep =>
         \E f \in Devs :
            /\ pool[f] # <<>>
            /\ pool' = [pool EXCEPT ![f] = SLIST_REMOVE_HEAD(@)]]_vars

\* C9: a handle is put back on the free list at most once per acquisition
\* and never while its command is outstanding: by the completion callback
\* when the command was submitted (the entry is reaped in the same step),
\* and by queue itself when the submission was not accepted.  A drive loop
\* that leaves on a failed submission keeps the handle it holds.
C9_Reinsertion ==
    /\ [](\A d \in Devs :
             /\ Cardinality(Range(pool[d])) = Len(pool[d])
             /\ \A h \in Range(pool[d]) : OwnerCount(d, h) = 0)
    /\ [][/\ \A d \in Devs :
               IF Len(pool'[d]) > Len(pool[d])
               THEN /\ pc \in {"poke", "wait", "wait_next"}
                    /\ \A h \in Range(pool'[d]) \ Range(pool[d]) :
                          /\ \E i \in 1 .. Len(cq[d]) : cq[d][i].req = h
                          /\ OwnerCount(d, h)' = 0
               ELSE Range(pool'[d]) \subseteq Range(pool[d])
          /\ QueueStep =>
               /\ err' = 0 =>
                     \E f \in Devs :
                        pool' = [pool EXCEPT ![f] = SLIST_REMOVE_HEAD(@)]
               /\ err' \in BusyErrs \cup HardErrs =>
                     UNCHANGED << pool, outq >>
          /\ (prog \in Examples /\ pc = "exit") => UNCHANGED << pool, req >>
         ]_vars

\* queue has put a handle back itself, on a busy answer, next to a handle
\* that a completion callback released earlier and that is in flight again.
C9_Witness ==
    /\ prog = "fioe"
    /\ q_status = "FIO_Q_BUSY"
    /\ \E d \in Devs :
          /\ outq[d] # {}
          /\ Len(pool[d]) + Outstanding(d) = depth + 1
          /\ \E c \in outq[d] : c.req # depth + 1 - Cardinality(outq[d])

\* C10: once a completion has reported an error (cb_args.ecount is not 0)
\* a drive loop submits no new command, on the busy-retry path either.
C10_NoSubmitAfterError ==
    [][(prog \in Examples /\ cb_args.ecount > 0) =>
          cb_args'.submitted = cb_args.submitted]_vars

\* C11: an async context is torn down only when none of its commands is in
\* flight: at the step that ends a run (exit: of a drive loop, cleanup of
\* the engine) no context has an outstanding command.
C11_TeardownDrained ==
    [][(pc # "done" /\ pc' = "done") =>
          \A d \in Devs : Outstanding(d) = 0]_vars

\* The zone the examples drive is Full: its write pointer is at its end.
ZoneFull == wp = zone.zslba + zone.zcap

\* A step in which the device completes a command.
Completes == \E d \in Devs : Len(cq'[d]) > Len(cq[d])

\* C12: the write loop has at most one write outstanding, every write the
\* device completes without a fault is accepted at the write pointer, which
\* moves on by one, and a run that ends without an error leaves the zone
\* Full, the write pointer at start + C, after C writes.
C12_WriteFillsZone ==
    /\ [](prog = "write" => Outstanding(0) <= 1)
    /\ []((prog = "write" /\ pc = "done" /\ ret = 0) =>
              /\ ZoneFull
              /\ cb_args = [ecount |-> 0, completed |-> zone.zcap,
                            submitted |-> zone.zcap])
    /\ [][(prog = "write" /\ Completes /\ faults' = faults) =>
              LET e == cq'[0][Len(cq'[0])]
              IN  e.status = 0 /\ e.lba = wp /\ wp' = wp + 1]_vars

C12_Witness ==
    /\ prog = "write"
    /\ depth > 1
    /\ pc = "done"
    /\ ret = 0
    /\ ZoneFull
    /\ cb_args.completed = zone.zcap

\* C13: every append names the zone start alone; the offsets the device
\* assigns are pairwise distinct and lie in the zone, and a run that ends
\* without an error has C completions whose offsets cover the zone exactly
\* once, however submissions and completions interleave.
C13_AppendCoversZone ==
    prog = "append" =>
        /\ \A c \in outq[0] : c.lba = zone.zslba
        /\ \A i, j \in DOMAIN offsets : i # j => offsets[i] # offsets[j]
        /\ Range(offsets) \subseteq
                zone.zslba .. (zone.zslba + zone.zcap - 1)
        /\ (pc = "done" /\ ret = 0) =>
              /\ Len(offsets) = zone.zcap
              /\ Range(offsets) = zone.zslba .. (zone.zslba + zone.zcap - 1)
              /\ cb_args.completed = zone.zcap

C13_Witness ==
    /\ prog = "append"
    /\ depth > 1
    /\ pc = "done"
    /\ ret = 0
    /\ faults > 0
    /\ Len(offsets) = zone.zcap

\* Whether the zone that starts at LBA zslba overlaps the byte range
\* [offset, offset + length).
Overlaps(zslba, offset, length) ==
    /\ Shl(zslba, Ssw) < offset + length
    /\ offset < Shl(zslba + NSect, Ssw)

\* C14: reset_wp sends a reset for the zones that overlap
\* [offset, offset + length) only: none for a zone that lies at or beyond
\* offset + length.
C14_ResetsOverlappingZones ==
    zbd.op = "reset_wp" =>
        \A i \in DOMAIN zbd.tried :
            Overlaps(zbd.tried[i].zslba, zbd.offset, zbd.length)

\* C15: reset_wp resets the zones in ascending order from the first, and
\* stops at the first reset that fails: no reset is attempted after a failed
\* one, the result is an error then, and it is 0 only when every zone from
\* first to last was reset.
C15_StopsAtFirstFailure ==
    zbd.op = "reset_wp" =>
        LET n == Len(zbd.tried)
        IN  /\ \A i \in 1 .. n :
                  /\ zbd.tried[i].zslba = zbd.first + (i - 1) * NSect
                  /\ i < n => zbd.tried[i].ok
            /\ zbd.pc = "reset" => \A i \in 1 .. n : zbd.tried[i].ok
            /\ zbd.pc = "ret" =>
                  /\ zbd.ret # 0 <=> (n > 0 /\ ~zbd.tried[n].ok)
                  /\ zbd.ret = 0 =>
                        zbd.first + (n - 1) * NSect = zbd.last

C15_Witness ==
    /\ zbd.op = "reset_wp"
    /\ zbd.pc = "ret"
    /\ zbd.ret # 0
    /\ Len(zbd.tried) = 2
    /\ zbd.tried[1].ok
    /\ ~zbd.tried[2].ok
    /\ Overlaps(zbd.first + 2 * NSect, zbd.offset, zbd.length)

\* The condition fio is to be told for each zone state libznd names.
Normalized ==
    [zs \in ZndStates |->
        CASE zs = "ZND_STATE_EMPTY" -> "ZBD_ZONE_COND_EMPTY"
          [] zs = "ZND_STATE_IOPEN" -> "ZBD_ZONE_COND_IMP_OPEN"
          [] zs = "ZND_STATE_EOPEN" -> "ZBD_ZONE_COND_EXP_OPEN"
          [] zs = "ZND_STATE_CLOSED" -> "ZBD_ZONE_COND_CLOSED"
          [] zs = "ZND_STATE_FULL" -> "ZBD_ZONE_COND_FULL"
          [] zs = "ZND_STATE_RONLY" -> "ZBD_ZONE_COND_OFFLINE"
          [] zs = "ZND_STATE_OFFLINE" -> "ZBD_ZONE_COND_OFFLINE"]

\* A report the device gave in full, of zones of the one valid type, asked
\* for at an offset inside the device.
GoodReport ==
    /\ zbd.op = "report_zones"
    /\ zbd.dev
    /\ ~zbd.rprt.null
    /\ Len(zbd.rprt.descrs) = zbd.nr_zones
    /\ zbd.offset <= tbytes
    /\ \A i \in DOMAIN zbd.rprt.descrs :
          zbd.rprt.descrs[i].zt = "ZND_TYPE_SEQWR"

C17_ExplicitResults ==
    (zbd.op = "report_zones" /\ zbd.pc = "ret") =>
        IF GoodReport
        THEN zbd.ret = zbd.nr_zones /\ Len(zbd.zbdz) = zbd.nr_zones
        ELSE zbd.ret < 0

\* Whether thread t is inside one of `calls`.
Inside(t, calls) ==
    /\ thr.op[t] # "none"
    /\ thr.at[t] <= Len(Steps(thr.op[t]))
    /\ Steps(thr.op[t])[thr.at[t]] \in calls

\* The backend calls that open and close a device, and the raw zone report
\* and reset calls.
OpenClose == {"xnvme_dev_open", "xnvme_dev_close", "_dev_close"}

ZoneCalls == {"znd_report_from_dev", "znd_cmd_mgmt_send"}

Drained == {u \in Units : io_u[u].st = "done"}

\* C19: when getevents has returned n, the entries 0 .. n - 1 of the
\* completion queue are, one each, the units drained during the call, and
\* between calls no drained unit is left that fio was not handed.
C19_DrainedAreReported ==
    prog = "fioe" =>
        /\ pc = "ret" =>
              /\ Drained = {iocq[i] : i \in 0 .. (ret - 1)}
              /\ Cardinality(Drained) = ret
        /\ pc = "idle" => Drained = {}

\* C20: in a call with 1 <= min <= max every poke is given a limit
\* max - xd->completed of at least 1 and at most max, and the completions
\* the call collects and returns never exceed max, nor the iodepth slots of
\* the completion queue when max <= iodepth.
C20_PokeLimit ==
    (prog = "fioe" /\ pc \in {"for", "poke", "ret"}
     /\ 1 <= ge.min /\ ge.min <= ge.max) =>
        /\ pc = "poke" => PokeMax(ge.max, xd.completed) \in 1 .. ge.max
        /\ xd.completed <= ge.max
        /\ ret <= ge.max
        /\ ge.max <= depth => xd.completed <= Cardinality(DOMAIN iocq)

C20_Witness ==
    /\ prog = "fioe"
    /\ pc = "poke"
    /\ ge.min = 2
    /\ ge.max = 2
    /\ xd.completed = 1
    /\ PokeMax(ge.max, xd.completed) = 1
    /\ cq[xd.cur] # <<>>

(* ------------------------- C21: the timeout --------------------------- *)

C22_ReturnStatus ==
    (prog \in Examples /\ pc = "done") =>
        /\ ret # 0 <=> (failedAt # {} \/ cb_args.ecount > 0)
        /\ ret = 0 => /\ cb_args.submitted = zone.zcap
                      /\ cb_args.completed = zone.zcap

\* A run all of whose steps succeeded returned -EIO for a completion that
\* carried an error.
C22_Witness ==
    /\ prog \in Examples
    /\ pc = "done"
    /\ failedAt = {}
    /\ cb_args.ecount > 0
    /\ ret = -EIO

(* ------------- C23, C24: the discipline of write and append ------------ *)

C24_AppendOneOutstanding ==
    prog = "append" => Outstanding(0) <= 1

\* C24: the append loop does not wait after an accepted append: it goes on
\* to the next sector as the read loop does, so up to qd appends are in
\* flight against the zone at a time; it submits while earlier appends are
\* outstanding whenever the context has room.
C24_AppendPipelined ==
    /\ [](prog = "append" =>
            /\ Outstanding(0) <= depth
            /\ cb_args.submitted - cb_args.completed = Outstanding(0))
    /\ [][(prog = "append" /\ SubmitStep /\ err' = 0) =>
            /\ pc' = "loop"
            /\ sect' = sect + 1
            /\ Outstanding(0)' = Outstanding(0) + 1]_vars

\* Two appends are in flight at the device at a queue depth of 2.
C24_Witness ==
    /\ prog = "append"
    /\ depth = 2
    /\ Cardinality(outq[0]) = 2
    /\ \A c \in outq[0] : c.lba = zone.zslba

(* --------------------- C25: handle conservation ------------------------ *)

\* C25: in a drive loop with a context of depth qd and a pool of qd + 1
\* handles, the handles on the free list, those of outstanding commands and
\* the one the loop holds between SLIST_REMOVE_HEAD and an accepted
\* submission are qd + 1 together in every state, so that the free list is
\* not empty when the loop takes its head: the head is never NULL.
C25_HandleConservation ==
    /\ [](prog \in Examples =>
            /\ Len(pool[0]) + Outstanding(0) + Cardinality(Held) = depth + 1
            /\ Outstanding(0) <= depth
            /\ pc = "loop" => (req = NULL /\ pool[0] # <<>>)
            /\ pc # "ub")
    /\ [][(prog \in Examples /\ pc = "loop" /\ pc' = "submit") =>
            /\ req' = Head(pool[0])
            /\ req' # NULL
            /\ Len(pool'[0]) = Len(pool[0]) - 1]_vars

\* The loop has taken the last free handle while the context is full, after
\* a busy answer and a poke that found nothing to reap.
C25_Witness ==
    /\ prog \in Examples
    /\ depth = 2
    /\ pc = "submit"
    /\ req # NULL
    /\ pool[0] = <<>>
    /\ Cardinality(outq[0]) = depth
    /\ lastTry.err \in BusyErrs
    /\ poked

(* ------------------------ C26: the read run ---------------------------- *)

\* C26: in a read run the k-th accepted submission is the one of sector
\* index k, at LBA start + k, with at most qd reads outstanding; a run that
\* returns 0 has submitted = completed = C, no error counted, nothing
\* outstanding and all qd + 1 handles on the free list; and a run in which
\* nothing fails terminates that way, when the backend completes every
\* command in flight.
C26_ReadRunTerminates ==
    /\ [](prog = "read" =>
            /\ Outstanding(0) <= depth
            /\ cb_args.submitted = sect
            /\ (pc = "done" /\ ret = 0) =>
                  /\ cb_args = [ecount |-> 0, completed |-> zone.zcap,
                                submitted |-> zone.zcap]
                  /\ Outstanding(0) = 0
                  /\ Range(pool[0]) = 1 .. (depth + 1)
                  /\ Len(pool[0]) = depth + 1)
    /\ [][(prog = "read" /\ SubmitStep /\ err' = 0) =>
            /\ lastTry'.lba = zone.zslba + cb_args.submitted
            /\ lastTry'.pay = cb_args.submitted
            /\ cb_args'.submitted = cb_args.submitted + 1
            /\ cb_args.submitted < zone.zcap]_vars
    /\ ([](faults = 0) => <>(pc = "done" /\ ret = 0))

\* A read run at a queue depth of 2 in which nothing failed has returned 0,
\* with the handles back in another order than the pool started with.
C26_Witness ==
    /\ prog = "read"
    /\ depth = 2
    /\ faults = 0
    /\ pc = "done"
    /\ ret = 0
    /\ cb_args.completed = zone.zcap
    /\ Len(pool[0]) = depth + 1
    /\ pool[0] # [i \in 1 .. (depth + 1) |-> i]

(* ---------------------- C27: device handles ---------------------------- *)

\* C27: every device handle the engine opens is closed, once: after init
\* and cleanup no file's handle is open, whether init returned 0 or failed
\* part-way, no handle is closed twice, and get_zoned_model has closed every
\* handle it opened when it returns, whatever the type of the geometry.
C27_HandlesClosed ==
    prog = "dev" =>
        /\ fw.pc = "done" => fw.open = {}
        /\ \A f \in Devs : fw.closes[f] <= 1
        /\ fw.zm.closed = fw.zm.opened

====
